---- MODULE Spec2Model ----
(***************************************************************************)
(* Model of src/src/index.ts (swagger-json-to-markdown): parseSwagger and  *)
(* the helpers it calls.  Strings are sequences of one-character strings,  *)
(* so that split, replace, toUpperCase, toLowerCase and join are computed  *)
(* character by character.  An optional field is a sequence of length 0    *)
(* (absent, JavaScript undefined) or 1 (present).  A JavaScript object is  *)
(* the sequence of its entries in for-in order.  The rendered Markdown is  *)
(* a sequence of lines; a line is a record of the template that produced   *)
(* it (k) and the interpolated strings (cells).  The timestamp of the      *)
(* title block is left out of the title line.                              *)
(***************************************************************************)
EXTENDS Integers, Sequences, FiniteSets, TLC

VARIABLES swaggerJson, pc, pathsByTag, opIdx, tagIdx, mpIdx,
          title, tocPaths, tocDefinitions, markdown, result

vars == <<swaggerJson, pc, pathsByTag, opIdx, tagIdx, mpIdx,
          title, tocPaths, tocDefinitions, markdown, result>>

(* ---------------------------- bounds ----------------------------------- *)
MaxOps == 2
MaxTags == 2
MaxParams == 1
MaxResponses == 2
MaxDefs == 2
MaxProps == 2

(* ---------------------------- strings ---------------------------------- *)
Empty == <<>>
Undefined == <<"u","n","d","e","f","i","n","e","d">>
Other == <<"O","t","h","e","r">>
TrueStr == <<"t","r","u","e">>
FalseStr == <<"f","a","l","s","e">>

None == <<>>
Some(v) == <<v>>
Has(o) == Len(o) > 0
ValueOf(o) == o[1]

\* JavaScript truthiness of an optional string: undefined and '' are falsy.
Truthy(o) == Has(o) /\ Len(ValueOf(o)) > 0
\* `x || ''`
OrEmpty(o) == IF Truthy(o) THEN ValueOf(o) ELSE Empty
\* `${x}` inside a template literal
Template(o) == IF Has(o) THEN ValueOf(o) ELSE Undefined
\* `${b}` for an optional boolean
TemplateBool(o) == IF Has(o) THEN (IF ValueOf(o) THEN TrueStr ELSE FalseStr) ELSE Undefined

LowerChars == <<"a","b","e","g","o","p","s","t">>
UpperChars == <<"A","B","E","G","O","P","S","T">>

UpperChar(c) ==
    IF \E i \in 1..Len(LowerChars) : LowerChars[i] = c
    THEN UpperChars[CHOOSE i \in 1..Len(LowerChars) : LowerChars[i] = c]
    ELSE c

LowerChar(c) ==
    IF \E i \in 1..Len(UpperChars) : UpperChars[i] = c
    THEN LowerChars[CHOOSE i \in 1..Len(UpperChars) : UpperChars[i] = c]
    ELSE c

toUpperCase(s) == [i \in 1..Len(s) |-> UpperChar(s[i])]
toLowerCase(s) == [i \in 1..Len(s) |-> LowerChar(s[i])]

\* s.split(sep) for a one-character separator
RECURSIVE split(_, _)
split(s, sep) ==
    IF \A i \in 1..Len(s) : s[i] # sep
    THEN <<s>>
    ELSE LET i == CHOOSE j \in 1..Len(s) :
                     s[j] = sep /\ \A k \in 1..(j-1) : s[k] # sep
         IN <<SubSeq(s, 1, i-1)>> \o split(SubSeq(s, i+1, Len(s)), sep)

\* s.replace(/\//g, '')
IsNotSlash(c) == c # "/"
removeSlashes(s) == SelectSeq(s, IsNotSlash)

\* arr.slice(-1)[0] of a non-empty array
lastOf(arr) == arr[Len(arr)]

\* arr.join(', ')
RECURSIVE join(_)
join(arr) ==
    IF Len(arr) = 0 THEN Empty
    ELSE IF Len(arr) = 1 THEN arr[1]
    ELSE arr[1] \o <<",", " ">> \o join(Tail(arr))

\* `[${text}](#${target})`
MdLink(text, target) == <<"[">> \o text \o <<"]", "(", "#">> \o target \o <<")">>

(* ------------------- for-in order of a JavaScript object --------------- *)
Digits == <<"0","1","2","3","4","5","6","7","8","9">>
IsDigit(c) == \E i \in 1..10 : Digits[i] = c
DigitVal(c) == (CHOOSE i \in 1..10 : Digits[i] = c) - 1

\* A key is an integer index when it is the canonical decimal form of a
\* non-negative integer (the keys of the model are far below 2^32 - 1).
IsArrayIndex(s) ==
    /\ Len(s) > 0
    /\ \A i \in 1..Len(s) : IsDigit(s[i])
    /\ (Len(s) = 1 \/ s[1] # "0")

RECURSIVE NumVal(_)
NumVal(s) == IF Len(s) = 0 THEN 0
             ELSE 10 * NumVal(SubSeq(s, 1, Len(s)-1)) + DigitVal(s[Len(s)])

NumLess(a, b) == NumVal(a) < NumVal(b)

\* The order in which for-in visits the own keys of an object whose keys
\* were created in the order `keys`: integer indices ascending, then the
\* other keys in creation order.
ForInKeys(keys) ==
    SortSeq(SelectSeq(keys, IsArrayIndex), NumLess)
        \o SelectSeq(keys, LAMBDA s : ~IsArrayIndex(s))

Line(k, cells) == [k |-> k, cells |-> cells]

RECURSIVE Concat(_)
Concat(ss) == IF Len(ss) = 0 THEN <<>> ELSE Head(ss) \o Concat(Tail(ss))

RECURSIVE Sum(_)
Sum(ns) == IF Len(ns) = 0 THEN 0 ELSE Head(ns) + Sum(Tail(ns))

(* ---------------------------- helpers of index.ts ---------------------- *)
generateAnchorLink(tag, method, path) ==
    tag \o <<"-">> \o toLowerCase(method) \o <<"-">> \o removeSlashes(path)

paramRow(param) ==
    Line("paramRow", << param.name, Template(param.description), Template(param.type),
                        TemplateBool(param.required), param.in >>)

createTableFromParams(parameters) ==
    <<Line("paramTableHead", <<>>)>>
        \o [i \in 1..Len(parameters) |-> paramRow(parameters[i])]

\* a slip: the whole $ref is kept instead of its last segment
schemaLinkWholeRef(response) ==
    IF Has(response.schema) /\ Truthy(ValueOf(response.schema).ref)
    THEN ValueOf(ValueOf(response.schema).ref)
    ELSE Empty

schemaLinkOf(response) ==
    IF Has(response.schema) /\ Truthy(ValueOf(response.schema).ref)
    THEN lastOf(split(ValueOf(ValueOf(response.schema).ref), "/"))
    ELSE Empty

responseRow(responseCode, response) ==
    Line("responseRow", << responseCode, Template(response.description),
                           MdLink(schemaLinkOf(response), schemaLinkOf(response)) >>)

\* responses holds the entries of the object in for-in order
createTableFromResponses(responses) ==
    <<Line("responseTableHead", <<>>)>>
        \o [i \in 1..Len(responses) |-> responseRow(responses[i].code, responses[i].response)]

\* a slip: items.$ref is not looked at
propertyTypeNoItems(propDetails) ==
    IF Truthy(propDetails.ref)
    THEN LET refLink == lastOf(split(ValueOf(propDetails.ref), "/"))
         IN MdLink(refLink, refLink)
    ELSE Template(propDetails.type)

propertyTypeOf(propDetails) ==
    IF Truthy(propDetails.ref)
    THEN LET refLink == lastOf(split(ValueOf(propDetails.ref), "/"))
         IN MdLink(refLink, refLink)
    ELSE IF Has(propDetails.items) /\ Truthy(ValueOf(propDetails.items).ref)
    THEN LET refLink == lastOf(split(ValueOf(ValueOf(propDetails.items).ref), "/"))
         IN MdLink(refLink, refLink)
    ELSE Template(propDetails.type)

propertyDescriptionOf(propDetails) ==
    OrEmpty(propDetails.description)
        \o (IF Has(propDetails.enum)
            THEN <<" ","E","n","u","m",":"," ">> \o join(ValueOf(propDetails.enum)) \o <<".">>
            ELSE Empty)
        \o (IF Truthy(propDetails.default)
            THEN <<" ","D","e","f","a","u","l","t",":"," ">> \o ValueOf(propDetails.default) \o <<".">>
            ELSE Empty)

propertyRow(property, propDetails) ==
    Line("propertyRow", << property, propertyTypeOf(propDetails),
                           propertyDescriptionOf(propDetails) >>)

definitionToc(definition) == Line("tocDefinition", << definition, definition >>)

definitionHead(definition) ==
    << Line("anchor", <<definition>>), Line("definitionHeading", <<definition>>) >>

definitionBody(defDetails) ==
    IF Has(defDetails.enum)
    THEN <<Line("enumHead", <<>>)>>
            \o [i \in 1..Len(ValueOf(defDetails.enum)) |->
                    Line("enumValue", <<ValueOf(defDetails.enum)[i]>>)]
            \o (IF Truthy(defDetails.default)
                THEN <<Line("enumDefault", <<ValueOf(defDetails.default)>>)>>
                ELSE <<>>)
            \o <<Line("blank", <<>>)>>
    ELSE IF Has(defDetails.properties)
    THEN LET props == ValueOf(defDetails.properties)
         IN <<Line("propertyTableHead", <<>>)>>
                \o [i \in 1..Len(props) |-> propertyRow(props[i].name, props[i].prop)]
    ELSE <<>>

\* definitions holds the entries of the object in for-in order
createDefinitionTables(definitions) ==
    [ markdown |-> Concat([i \in 1..Len(definitions) |->
                       definitionHead(definitions[i].name)
                           \o definitionBody(definitions[i].def)]),
      tocDefinitions |-> [i \in 1..Len(definitions) |-> definitionToc(definitions[i].name)] ]

(* ---------------------------- grouping (lines 153-168) ----------------- *)
\* obj[key] = value on an object held as its entries in creation order
SetKey(bucket, key, value) ==
    IF \E i \in 1..Len(bucket) : bucket[i].key = key
    THEN LET i == CHOOSE j \in 1..Len(bucket) : bucket[j].key = key
         IN [bucket EXCEPT ![i].value = value]
    ELSE Append(bucket, [key |-> key, value |-> value])

HasTag(pbt, tag) == \E i \in 1..Len(pbt) : pbt[i].tag = tag
TagPos(pbt, tag) == CHOOSE i \in 1..Len(pbt) : pbt[i].tag = tag

methodPathLabel(method, path) == toUpperCase(method) \o <<" ">> \o path

insertUnderTag(pbt, tag, method, path, operation) ==
    LET withBucket == IF HasTag(pbt, tag) THEN pbt
                      ELSE Append(pbt, [tag |-> tag, bucket |-> <<>>])
        i == TagPos(withBucket, tag)
    IN [withBucket EXCEPT ![i].bucket =
            SetKey(withBucket[i].bucket, methodPathLabel(method, path), operation)]

\* `operation.tags || ['Other']`: an array, even an empty one, is truthy
tagsOf(operation) ==
    IF Has(operation.tags) THEN ValueOf(operation.tags) ELSE <<Other>>

RECURSIVE insertUnderTags(_, _, _, _, _)
insertUnderTags(pbt, tags, method, path, operation) ==
    IF Len(tags) = 0 THEN pbt
    ELSE insertUnderTags(insertUnderTag(pbt, Head(tags), method, path, operation),
                         Tail(tags), method, path, operation)

(* ---------------------------- rendering (lines 170-195) ---------------- *)
\* for (const tag in pathsByTag)
TagOrder(pbt) == ForInKeys([i \in 1..Len(pbt) |-> pbt[i].tag])
BucketOf(pbt, tag) == pbt[TagPos(pbt, tag)].bucket
\* for (const methodPath in pathsByTag[tag])
LabelOrder(bucket) == ForInKeys([i \in 1..Len(bucket) |-> bucket[i].key])
OperationAt(bucket, label) ==
    bucket[CHOOSE i \in 1..Len(bucket) : bucket[i].key = label].value

tocTag(tag) == Line("tocTag", << tag, tag >>)

\* a slip: the anchor of a tag section is lowercased, its link is not
tagHeadLowercased(tag) ==
    << Line("anchor", <<toLowerCase(tag)>>), Line("tagHeading", <<tag>>) >>

tagHead(tag) == << Line("anchor", <<tag>>), Line("tagHeading", <<tag>>) >>

anchorLinkOf(tag, methodPath) ==
    generateAnchorLink(tag, split(methodPath, " ")[1], split(methodPath, " ")[2])

tocOperation(tag, methodPath) ==
    Line("tocOperation", << methodPath, anchorLinkOf(tag, methodPath) >>)

operationSection(tag, methodPath, operation) ==
    << Line("anchor", <<anchorLinkOf(tag, methodPath)>>),
       Line("operationHeading", <<methodPath>>),
       Line("summary", <<OrEmpty(operation.summary)>>),
       Line("description", <<OrEmpty(operation.description)>>),
       Line("parametersHeading", <<>>) >>
      \o createTableFromParams(IF Has(operation.parameters)
                                THEN ValueOf(operation.parameters) ELSE <<>>)
      \o <<Line("responsesHeading", <<>>)>>
      \o createTableFromResponses(operation.responses)
      \o <<Line("separator", <<>>)>>

(* ---------------------------- input documents -------------------------- *)
PathAB == <<"/","a","b">>
PathASlashB == <<"/","a","/","b">>
PathASpaceB == <<"/","a"," ","b">>
MethodGet == <<"g","e","t">>
MethodGET == <<"G","E","T">>
MethodPost == <<"p","o","s","t">>
TagA == <<"A">>
Tag1 == <<"1">>
AnchorAGetAb == <<"A","-","g","e","t","-","a","b">>
User == <<"U","s","e","r">>
Pet == <<"P","e","t">>
Gone == <<"G","o","n","e">>
RefPrefix == <<"#","/","d","e","f","i","n","i","t","i","o","n","s","/">>
RefTo(name) == RefPrefix \o name
StringType == <<"s","t","r","i","n","g">>
Code200 == <<"2","0","0">>
Code404 == <<"4","0","4">>
CodeDefault == <<"d","e","f","a","u","l","t">>

SeqsUpTo(S, n) == UNION {[1..k -> S] : k \in 0..n}
Distinct(f) == \A i, j \in 1..Len(f) : i # j => f[i] # f[j]

\* the keys of a parsed object are distinct and already in for-in order
IsObject(keys) == Distinct(keys) /\ ForInKeys(keys) = keys

\* the nested loops of lines 155-156 visit the methods of one path together
IsPaths(paths) ==
    /\ \A i, j \in 1..Len(paths) : i # j =>
          ~(paths[i].path = paths[j].path /\ paths[i].method = paths[j].method)
    /\ \A i, j, k \in 1..Len(paths) :
          (i < j /\ j < k /\ paths[i].path = paths[k].path) => paths[j].path = paths[i].path

InfoT == [title |-> <<"T">>, version |-> <<"1">>]
Infos == {None, Some(InfoT)}

Op(tags, summary, parameters, responses) ==
    [tags |-> tags, summary |-> summary, description |-> None,
     parameters |-> parameters, responses |-> responses]

Document(info, paths, definitions) ==
    [info |-> info, paths |-> paths, definitions |-> definitions]

BareDefinition == [enum |-> None, default |-> None, properties |-> None]

InitOf(Docs) ==
    /\ swaggerJson \in Docs
    /\ pc = "start"
    /\ pathsByTag = <<>>
    /\ opIdx = 0
    /\ tagIdx = 1
    /\ mpIdx = 0
    /\ title = <<>>
    /\ tocPaths = <<>>
    /\ tocDefinitions = <<>>
    /\ markdown = <<>>
    /\ result = <<>>

\* Documents that exercise the grouping: tags absent, empty, repeated and
\* integer-like, methods that differ only in case, a path holding a space.
GroupEntries ==
    { [path |-> p, method |-> m, operation |-> Op(t, s, None, <<>>)] :
        p \in {PathAB, PathASpaceB}, m \in {MethodGet, MethodGET},
        t \in {None} \cup {Some(l) : l \in SeqsUpTo({TagA, Tag1}, MaxTags)},
        s \in {None, Some(<<"s">>)} }
GroupDocs(maxOps) ==
    { Document(i, ps, <<>>) :
        i \in Infos, ps \in {q \in SeqsUpTo(GroupEntries, maxOps) : IsPaths(q)} }
InitGroup == InitOf(GroupDocs(MaxOps))

\* Documents that exercise the anchors: paths that collapse to one string,
\* definitions named like a tag or like an operation anchor.
AnchorEntries ==
    { [path |-> p, method |-> m, operation |-> Op(t, None, None, <<>>)] :
        p \in {PathAB, PathASlashB}, m \in {MethodGet, MethodPost},
        t \in {None} \cup {Some(l) : l \in SeqsUpTo({TagA}, MaxTags)} }
AnchorDefinitions ==
    { ds \in SeqsUpTo({[name |-> n, def |-> BareDefinition] : n \in {TagA, AnchorAGetAb, User}},
                      MaxDefs) :
        IsObject([k \in 1..Len(ds) |-> ds[k].name]) }
AnchorDocs(maxOps) ==
    { Document(i, ps, ds) :
        i \in Infos, ps \in {q \in SeqsUpTo(AnchorEntries, maxOps) : IsPaths(q)},
        ds \in AnchorDefinitions }
InitAnchor == InitOf(AnchorDocs(MaxOps))

\* Documents with one operation that exercise the parameter and response
\* tables: descriptions absent, body parameters with a schema, responses
\* with and without a schema.
IdName == <<"i","d">>
XName == <<"x">>
BodyName == <<"b","o","d","y">>
QueryIn == <<"q","u","e","r","y">>
ObjectType == <<"o","b","j","e","c","t">>
OkText == <<"O","K">>

Param(name, description, type, in, schema) ==
    [name |-> name, description |-> description, type |-> type,
     required |-> Some(TRUE), in |-> in, schema |-> schema]
InlineSchema ==
    [ref |-> None,
     properties |-> Some(<<[name |-> XName, type |-> Some(StringType), title |-> Some(<<"t">>)]>>)]
RefSchema == [ref |-> Some(RefTo(User)), properties |-> None]
Params ==
    { Param(IdName, d, Some(StringType), QueryIn, None) : d \in {None, Some(<<"d">>)} }
    \cup { Param(BodyName, None, None, BodyName, Some(RefSchema)) }
    \cup { Param(BodyName, None, t, BodyName, Some(InlineSchema)) : t \in {None, Some(ObjectType)} }

Response(description, schema) == [description |-> description, schema |-> schema]
OpResponses ==
    { Response(d, sc) : d \in {None, Some(OkText)},
                        sc \in {None, Some([ref |-> None]), Some([ref |-> Some(Empty)]),
                                Some([ref |-> Some(RefTo(User))]), Some([ref |-> Some(RefPrefix)])} }
ResponseMaps(Rs, Codes, n) ==
    { rs \in SeqsUpTo({[code |-> c, response |-> r] : c \in Codes, r \in Rs}, n) :
        IsObject([k \in 1..Len(rs) |-> rs[k].code]) }

OneEntry(operation) == <<[path |-> PathAB, method |-> MethodGet, operation |-> operation]>>

OpDocs(maxParams, maxResponses) ==
    { Document(i, OneEntry(Op(Some(<<TagA>>), s, ps, rs)), <<>>) :
        i \in Infos, s \in {None, Some(<<"s">>)},
        ps \in {None} \cup {Some(l) : l \in SeqsUpTo(Params, maxParams)},
        rs \in ResponseMaps(OpResponses, {Code200, Code404, CodeDefault}, maxResponses) }
InitOps == InitOf(OpDocs(MaxParams, MaxResponses))

\* Documents that exercise references: a response and properties that name
\* a definition of the document or a definition the document lacks.
Prop(type, ttl, description, ref, items, enum, default) ==
    [type |-> type, title |-> ttl, description |-> description, ref |-> ref,
     items |-> items, enum |-> enum, default |-> default]
RefProps ==
    { Prop(Some(StringType), None, None, None, None, None, None),
      Prop(None, None, None, Some(RefTo(User)), None, None, None),
      Prop(Some(<<"a","r","r","a","y">>), None, None, None, Some([ref |-> Some(RefTo(Pet))]),
           None, None) }
PropNames == <<IdName, XName, <<"y">>, <<"z">>>>
PropertyMaps(Ps, n) ==
    UNION { { [i \in 1..k |-> [name |-> PropNames[i], prop |-> f[i]]] : f \in [1..k -> Ps] } :
            k \in 0..n }
ObjectDefinition(properties) == [enum |-> None, default |-> None, properties |-> Some(properties)]
EnumDefinition(enum, default) == [enum |-> Some(enum), default |-> default, properties |-> None]

\* Definitions named User, Pet or A that hold at most MaxProps properties in
\* all: the properties ps are dealt to the definitions in order (ow gives the
\* definition of each), and a definition left without any is bare or has an
\* empty properties object.
Dealt(ns, ps, ow) ==
    \A j \in DOMAIN ow :
        /\ j <= Len(ps) => ow[j] <= Len(ns)
        /\ j > Len(ps) => ow[j] = 1
        /\ (1 < j /\ j <= Len(ps)) => ow[j-1] <= ow[j]
OwnedBy(ps, ow, d) ==
    LET idx == SelectSeq([j \in 1..Len(ps) |-> j], LAMBDA j : ow[j] = d)
    IN [k \in 1..Len(idx) |-> [name |-> PropNames[k], prop |-> ps[idx[k]]]]
RefDefinition(properties, object) ==
    IF Len(properties) = 0 /\ ~object THEN BareDefinition ELSE ObjectDefinition(properties)
RefDefinitionMap(ns, ps, ow, object) ==
    [d \in 1..Len(ns) |->
        [name |-> ns[d], def |-> RefDefinition(OwnedBy(ps, ow, d), object[d])]]
RefDefinitionMaps(maxDefs, maxProps) ==
    { RefDefinitionMap(u[1], u[2], u[3], u[4]) :
        u \in { v \in { q \in SeqsUpTo({User, Pet, TagA}, maxDefs) : IsObject(q) }
                         \X SeqsUpTo(RefProps, maxProps)
                         \X [1..maxProps -> 1..maxDefs]
                         \X [1..maxDefs -> BOOLEAN] :
                  Dealt(v[1], v[2], v[3]) } }
OneResponse(schema) == <<[code |-> Code200, response |-> Response(Some(OkText), schema)]>>
RefDocs(maxDefs, maxProps) ==
    { Document(i, OneEntry(Op(Some(<<TagA>>), None, None, OneResponse(sc))), ds) :
        i \in Infos,
        sc \in {None, Some([ref |-> Some(RefTo(User))]), Some([ref |-> Some(RefTo(Gone))])},
        ds \in RefDefinitionMaps(maxDefs, maxProps) }
InitRefs == InitOf(RefDocs(MaxDefs, MaxProps))

\* Documents that exercise the last cell of a property row and the enum
\* definitions: title, description, enum and default present or absent.
EnumAB == << <<"A">>, <<"B">> >>
DescProps ==
    { Prop(Some(StringType), t, d, None, None, e, df) :
        t \in {None, Some(<<"T">>)}, d \in {None, Some(<<"D">>)},
        e \in {None, Some(<<>>), Some(EnumAB)},
        df \in {None, Some(Empty), Some(<<"A">>)} }
PropDefinitions(maxProps) ==
    {BareDefinition}
        \cup {EnumDefinition(EnumAB, df) : df \in {None, Some(Empty), Some(<<"A">>)}}
        \cup {ObjectDefinition(ps) : ps \in PropertyMaps(DescProps, maxProps)}
PropDocs(maxProps) ==
    { Document(i, OneEntry(Op(Some(<<TagA>>), None, None, OneResponse(None))), ds) :
        i \in Infos, ds \in {<<>>} \cup {<<[name |-> User, def |-> d]>> : d \in PropDefinitions(maxProps)} }
InitProps == InitOf(PropDocs(MaxProps))

(* ---------------------------- parseSwagger ----------------------------- *)
\* lines 147-153; reading info.title of a document without info throws
Start ==
    /\ pc = "start"
    /\ Has(swaggerJson.info)
    /\ title' = <<Line("title", << ValueOf(swaggerJson.info).title,
                                   ValueOf(swaggerJson.info).version >>)>>
    /\ markdown' = <<>>
    /\ tocPaths' = <<Line("tocPathsHeading", <<>>)>>
    /\ tocDefinitions' = <<Line("tocDefinitionsHeading", <<>>)>>
    /\ pathsByTag' = <<>>
    /\ opIdx' = 1
    /\ pc' = IF Len(swaggerJson.paths) = 0 THEN "render" ELSE "group"
    /\ UNCHANGED <<swaggerJson, tagIdx, mpIdx, result>>

StartThrows ==
    /\ pc = "start"
    /\ ~Has(swaggerJson.info)
    /\ pc' = "error"
    /\ UNCHANGED <<swaggerJson, pathsByTag, opIdx, tagIdx, mpIdx,
                   title, tocPaths, tocDefinitions, markdown, result>>

\* one iteration of the loops of lines 155-156, with the whole loop of line 160
GroupOperation ==
    /\ pc = "group"
    /\ LET e == swaggerJson.paths[opIdx]
       IN pathsByTag' = insertUnderTags(pathsByTag, tagsOf(e.operation),
                                        e.method, e.path, e.operation)
    /\ opIdx' = opIdx + 1
    /\ pc' = IF opIdx = Len(swaggerJson.paths) THEN "render" ELSE "group"
    /\ UNCHANGED <<swaggerJson, tagIdx, mpIdx, title, tocPaths, tocDefinitions,
                   markdown, result>>

\* lines 170-174
RenderTag ==
    /\ pc = "render"
    /\ tagIdx <= Len(TagOrder(pathsByTag))
    /\ mpIdx = 0
    /\ LET tag == TagOrder(pathsByTag)[tagIdx]
       IN /\ tocPaths' = Append(tocPaths, tocTag(tag))
          /\ markdown' = markdown \o tagHead(tag)
    /\ mpIdx' = 1
    /\ UNCHANGED <<swaggerJson, pc, pathsByTag, opIdx, tagIdx, title,
                   tocDefinitions, result>>

\* lines 176-194
RenderOperation ==
    /\ pc = "render"
    /\ tagIdx <= Len(TagOrder(pathsByTag))
    /\ mpIdx >= 1
    /\ LET tag == TagOrder(pathsByTag)[tagIdx]
           bucket == BucketOf(pathsByTag, tag)
           methodPath == LabelOrder(bucket)[mpIdx]
           operation == OperationAt(bucket, methodPath)
       IN /\ tocPaths' = Append(tocPaths, tocOperation(tag, methodPath))
          /\ markdown' = markdown \o operationSection(tag, methodPath, operation)
          /\ IF mpIdx = Len(bucket)
             THEN tagIdx' = tagIdx + 1 /\ mpIdx' = 0
             ELSE tagIdx' = tagIdx /\ mpIdx' = mpIdx + 1
    /\ UNCHANGED <<swaggerJson, pc, pathsByTag, opIdx, title, tocDefinitions, result>>

\* lines 197-200
RenderDefinitions ==
    /\ pc = "render"
    /\ tagIdx > Len(TagOrder(pathsByTag))
    /\ LET definitionsTables == createDefinitionTables(swaggerJson.definitions)
       IN /\ markdown' = markdown \o <<Line("definitionSectionHeading", <<>>)>>
                                  \o definitionsTables.markdown
          /\ tocDefinitions' = tocDefinitions \o definitionsTables.tocDefinitions
    /\ pc' = "return"
    /\ UNCHANGED <<swaggerJson, pathsByTag, opIdx, tagIdx, mpIdx, title, tocPaths, result>>

\* line 202
Return ==
    /\ pc = "return"
    /\ result' = title \o tocPaths \o tocDefinitions \o markdown
    /\ pc' = "done"
    /\ UNCHANGED <<swaggerJson, pathsByTag, opIdx, tagIdx, mpIdx, title, tocPaths,
                   tocDefinitions, markdown>>

Next ==
    \/ Start
    \/ StartThrows
    \/ GroupOperation
    \/ RenderTag
    \/ RenderOperation
    \/ RenderDefinitions
    \/ Return

(* ---------------------------- properties ------------------------------- *)
Grouped == pc \in {"render", "return", "done"}
Done == pc = "done"
LinesOf(lines, kind) == SelectSeq(lines, LAMBDA l : l.k = kind)
Cell(lines, n) == [i \in 1..Len(lines) |-> lines[i].cells[n]]
TheOperation == swaggerJson.paths[1].operation

\* C1: the number of 'METHOD PATH' entries summed over all tag buckets is the
\* sum over the operations of the document of max(1, number of tags).
TagCount(operation) == IF Has(operation.tags) THEN Len(ValueOf(operation.tags)) ELSE 0
AtLeastOne(n) == IF n < 1 THEN 1 ELSE n
C1_FanOutLaw ==
    Grouped =>
        Sum([i \in 1..Len(pathsByTag) |-> Len(pathsByTag[i].bucket)])
          = Sum([i \in 1..Len(swaggerJson.paths) |->
                    AtLeastOne(TagCount(swaggerJson.paths[i].operation))])

\* C2 (as stated): every anchor a table-of-contents entry links to is emitted
\* as an anchor line of the body exactly once.
IsTocEntry(l) == l.k \in {"tocTag", "tocOperation", "tocDefinition"}
IsAnchor(l) == l.k = "anchor"
TocTargets == Cell(SelectSeq(result, IsTocEntry), 2)
BodyAnchors == Cell(SelectSeq(result, IsAnchor), 1)
Occurrences(seq, x) == Cardinality({i \in 1..Len(seq) : seq[i] = x})
C2_AnchorExactlyOnce ==
    Done => \A i \in 1..Len(TocTargets) : Occurrences(BodyAnchors, TocTargets[i]) = 1

\* C2 (amended): every table-of-contents entry has its own anchor in the body:
\* the anchors of the body, in order, are the link targets of the table of
\* contents, in order, so an anchor is emitted at least once and exactly as
\* many times as table-of-contents entries link to it.
C2_AnchorPerTocEntry ==
    Done => /\ BodyAnchors = TocTargets
            /\ \A i \in 1..Len(TocTargets) :
                  /\ Occurrences(BodyAnchors, TocTargets[i]) >= 1
                  /\ Occurrences(BodyAnchors, TocTargets[i])
                        = Occurrences(TocTargets, TocTargets[i])

C2_Witness ==
    /\ Done
    /\ \E i \in 1..Len(TocTargets) : Occurrences(BodyAnchors, TocTargets[i]) >= 2
    /\ \E i \in 1..Len(TocTargets) : Occurrences(BodyAnchors, TocTargets[i]) = 1

\* C3: every operation whose tags are absent or an empty list is inserted
\* under the tag "Other" with the key 'METHOD PATH', and is listed in the
\* paths table of contents.
Untagged(operation) == ~Has(operation.tags) \/ Len(ValueOf(operation.tags)) = 0
C3_UntaggedUnderOther ==
    \A i \in 1..Len(swaggerJson.paths) :
        LET e == swaggerJson.paths[i]
            label == toUpperCase(e.method) \o <<" ">> \o e.path
        IN Untagged(e.operation) =>
             /\ Grouped =>
                  \E t \in 1..Len(pathsByTag) :
                      /\ pathsByTag[t].tag = Other
                      /\ \E k \in 1..Len(pathsByTag[t].bucket) :
                            pathsByTag[t].bucket[k].key = label
             /\ Done =>
                  \E n \in 1..Len(result) :
                      result[n].k = "tocOperation" /\ result[n].cells[1] = label

\* C4: a body parameter whose schema has inline properties and no $ref gets
\* the Type cell "object", and a secondary table headed by the parameter's
\* name, with one row per inline property, follows the main table.
InlineBody(param) ==
    /\ Has(param.schema)
    /\ ~Has(ValueOf(param.schema).ref)
    /\ Has(ValueOf(param.schema).properties)
C4_InlineBodySubTable ==
    (Done /\ Has(TheOperation.parameters)) =>
        LET ps == ValueOf(TheOperation.parameters)
            rows == LinesOf(result, "paramRow")
        IN \A i \in 1..Len(ps) :
              InlineBody(ps[i]) =>
                 /\ rows[i].cells[3] = ObjectType
                 /\ \E n \in 1..Len(result) :
                       /\ result[n].k = "paramSubTableHeading"
                       /\ result[n].cells = <<ps[i].name>>
                 /\ Len(LinesOf(result, "paramSubTableRow"))
                       >= Len(ValueOf(ValueOf(ps[i].schema).properties))

\* C5: the response table has one row per status code, in the order of the
\* responses map; a row holds the code, the description and a Markdown link
\* whose text and target are the last '/'-delimited segment of schema.$ref,
\* or are both empty when the response has no schema.
IsLastSegment(x, s) ==
    /\ Len(x) <= Len(s)
    /\ SubSeq(s, Len(s) - Len(x) + 1, Len(s)) = x
    /\ \A i \in 1..Len(x) : x[i] # "/"
    /\ (Len(x) = Len(s) \/ s[Len(s) - Len(x)] = "/")
IsLinkTo(cell, x) == cell = <<"[">> \o x \o <<"]", "(", "#">> \o x \o <<")">>
HasSchemaRef(response) == Has(response.schema) /\ Has(ValueOf(response.schema).ref)
C5_ResponseRows ==
    Done =>
        LET rs == TheOperation.responses
            rows == LinesOf(result, "responseRow")
        IN /\ Len(rows) = Len(rs)
           /\ \A i \in 1..Len(rs) :
                 /\ rows[i].cells[1] = rs[i].code
                 /\ Has(rs[i].response.description) =>
                        rows[i].cells[2] = ValueOf(rs[i].response.description)
                 /\ IF HasSchemaRef(rs[i].response)
                    THEN \E n \in 0..Len(ValueOf(ValueOf(rs[i].response.schema).ref)) :
                           LET ref == ValueOf(ValueOf(rs[i].response.schema).ref)
                               x == SubSeq(ref, Len(ref) - n + 1, Len(ref))
                           IN IsLastSegment(x, ref) /\ IsLinkTo(rows[i].cells[3], x)
                    ELSE IsLinkTo(rows[i].cells[3], Empty)

C5_Witness ==
    /\ Done
    /\ Len(TheOperation.responses) = 2
    /\ \E l \in {result[n] : n \in 1..Len(result)} :
          l.k = "responseRow" /\ l.cells = <<Code200, OkText, <<"[">> \o User \o <<"]", "(", "#">> \o User \o <<")">> >>
    /\ \E l \in {result[n] : n \in 1..Len(result)} :
          l.k = "responseRow" /\ l.cells[3] = <<"[", "]", "(", "#", ")">>

\* C6: a reference to a definition that the definitions map lacks is not
\* fatal: parseSwagger throws only when info is absent, the response row and
\* every property row are still emitted, every definition keeps its heading,
\* and the link of an unresolved reference has the unresolved name as its
\* text and its target.
DefinitionNames == {swaggerJson.definitions[i].name : i \in 1..Len(swaggerJson.definitions)}
PropertiesOf(defDetails) ==
    IF ~Has(defDetails.enum) /\ Has(defDetails.properties)
    THEN ValueOf(defDetails.properties) ELSE <<>>
AllProperties ==
    Concat([i \in 1..Len(swaggerJson.definitions) |-> PropertiesOf(swaggerJson.definitions[i].def)])
PropertyRef(propDetails) ==
    IF Has(propDetails.ref) THEN propDetails.ref
    ELSE IF Has(propDetails.items) THEN ValueOf(propDetails.items).ref
    ELSE None
NameOfRef(ref) == SubSeq(ref, Len(RefPrefix) + 1, Len(ref))
Unresolved(ref) == Has(ref) /\ NameOfRef(ValueOf(ref)) \notin DefinitionNames
ResponseRef(response) ==
    IF Has(response.schema) THEN ValueOf(response.schema).ref ELSE None
C6_UnresolvedRefNotFatal ==
    /\ pc = "error" => ~Has(swaggerJson.info)
    /\ Done =>
        LET rs == TheOperation.responses
            rrows == LinesOf(result, "responseRow")
            props == AllProperties
            prows == LinesOf(result, "propertyRow")
        IN /\ Len(rrows) = Len(rs)
           /\ Len(prows) = Len(props)
           /\ Cell(LinesOf(result, "definitionHeading"), 1)
                 = [i \in 1..Len(swaggerJson.definitions) |-> swaggerJson.definitions[i].name]
           /\ \A i \in 1..Len(rs) :
                 /\ rrows[i].cells[1] = rs[i].code
                 /\ Unresolved(ResponseRef(rs[i].response)) =>
                       IsLinkTo(rrows[i].cells[3], NameOfRef(ValueOf(ResponseRef(rs[i].response))))
           /\ \A i \in 1..Len(props) :
                 /\ prows[i].cells[1] = props[i].name
                 /\ Unresolved(PropertyRef(props[i].prop)) =>
                       IsLinkTo(prows[i].cells[2], NameOfRef(ValueOf(PropertyRef(props[i].prop))))
                 /\ ~Has(PropertyRef(props[i].prop)) =>
                       prows[i].cells[2] = ValueOf(props[i].prop.type)

C6_Witness ==
    /\ Done
    /\ \E i \in 1..Len(TheOperation.responses) :
          Unresolved(ResponseRef(TheOperation.responses[i].response))
    /\ \E i \in 1..Len(AllProperties) :
          /\ Has(AllProperties[i].prop.items)
          /\ Unresolved(PropertyRef(AllProperties[i].prop))
    /\ \E i \in 1..Len(AllProperties) : ~Unresolved(PropertyRef(AllProperties[i].prop))
    /\ \E n \in 1..Len(result) :
          /\ result[n].k = "propertyRow"
          /\ result[n].cells[2] = <<"[">> \o Pet \o <<"]", "(", "#">> \o Pet \o <<")">>

\* C7: an absent summary or description is rendered as the empty string.
TextOrEmpty(o) == IF Has(o) THEN ValueOf(o) ELSE Empty
C7_AbsentOptionalIsEmpty ==
    Done =>
        LET rs == TheOperation.responses
            rrows == LinesOf(result, "responseRow")
            ps == IF Has(TheOperation.parameters) THEN ValueOf(TheOperation.parameters) ELSE <<>>
            prows == LinesOf(result, "paramRow")
        IN /\ Cell(LinesOf(result, "summary"), 1) = <<TextOrEmpty(TheOperation.summary)>>
           /\ \A i \in 1..Len(rs) :
                 rrows[i].cells[2] = TextOrEmpty(rs[i].response.description)
           /\ \A i \in 1..Len(ps) :
                 prows[i].cells[2] = TextOrEmpty(ps[i].description)

\* C8: the last cell of a property row is the property's title, then
\* " Enum: v1, v2, ...." when it declares an enum, then " Default: X." when it
\* declares a default, whatever the default's value.
RECURSIVE CommaList(_)
CommaList(vs) ==
    IF Len(vs) = 0 THEN Empty
    ELSE IF Len(vs) = 1 THEN vs[1]
    ELSE CommaList(SubSeq(vs, 1, Len(vs) - 1)) \o <<",", " ">> \o vs[Len(vs)]
C8_PropertyLastCell ==
    Done =>
        LET props == AllProperties
            prows == LinesOf(result, "propertyRow")
        IN /\ Len(prows) = Len(props)
           /\ \A i \in 1..Len(props) :
                 prows[i].cells[3] =
                     TextOrEmpty(props[i].prop.title)
                       \o (IF Has(props[i].prop.enum)
                           THEN <<" ","E","n","u","m",":"," ">>
                                   \o CommaList(ValueOf(props[i].prop.enum)) \o <<".">>
                           ELSE Empty)
                       \o (IF Has(props[i].prop.default)
                           THEN <<" ","D","e","f","a","u","l","t",":"," ">>
                                   \o ValueOf(props[i].prop.default) \o <<".">>
                           ELSE Empty)

\* C9: tag sections and the tag entries of the table of contents follow the
\* order in which the tags are first seen in the scan of the document; within
\* a tag the operations follow the order in which their label was first
\* inserted, and a later duplicate label replaces the operation in place.
RECURSIVE FirstSeen(_)
FirstSeen(xs) ==
    IF Len(xs) = 0 THEN <<>>
    ELSE <<Head(xs)>> \o FirstSeen(SelectSeq(Tail(xs), LAMBDA y : y # Head(xs)))
ScannedTags(operation) ==
    IF Has(operation.tags) THEN ValueOf(operation.tags) ELSE <<Other>>
Contains(xs, x) == \E i \in 1..Len(xs) : xs[i] = x
EntriesOfTag(tag) ==
    SelectSeq(swaggerJson.paths, LAMBDA e : Contains(ScannedTags(e.operation), tag))
LabelOf(e) == toUpperCase(e.method) \o <<" ">> \o e.path
ExpectedTags ==
    FirstSeen(Concat([i \in 1..Len(swaggerJson.paths) |->
                         ScannedTags(swaggerJson.paths[i].operation)]))
ExpectedLabels(tag) ==
    FirstSeen([i \in 1..Len(EntriesOfTag(tag)) |-> LabelOf(EntriesOfTag(tag)[i])])
LastWritten(tag, label) ==
    LET es == SelectSeq(EntriesOfTag(tag), LAMBDA e : LabelOf(e) = label)
    IN es[Len(es)].operation
ExpectedOutline(tagKind, opKind) ==
    Concat([t \in 1..Len(ExpectedTags) |->
              <<Line(tagKind, <<ExpectedTags[t]>>)>>
                 \o [i \in 1..Len(ExpectedLabels(ExpectedTags[t])) |->
                        Line(opKind, <<ExpectedLabels(ExpectedTags[t])[i]>>)]])
ExpectedSummaries ==
    Concat([t \in 1..Len(ExpectedTags) |->
              [i \in 1..Len(ExpectedLabels(ExpectedTags[t])) |->
                  TextOrEmpty(LastWritten(ExpectedTags[t],
                                          ExpectedLabels(ExpectedTags[t])[i]).summary)]])
Outline(lines, tagKind, opKind) ==
    LET sel == SelectSeq(lines, LAMBDA l : l.k \in {tagKind, opKind})
    IN [i \in 1..Len(sel) |-> Line(sel[i].k, <<sel[i].cells[1]>>)]
C9_EncounterOrder ==
    Done =>
        /\ Outline(result, "tagHeading", "operationHeading")
              = ExpectedOutline("tagHeading", "operationHeading")
        /\ Outline(result, "tocTag", "tocOperation")
              = ExpectedOutline("tocTag", "tocOperation")
        /\ Cell(LinesOf(result, "summary"), 1) = ExpectedSummaries

\* C10: for an operation with tag t, method m and path p, the anchor of its
\* section and the link target of its table-of-contents entry are
\* t-lowercase(m)-(p without its "/" characters).
ExpectedAnchor(tag, e) ==
    tag \o <<"-">> \o toLowerCase(e.method) \o <<"-">> \o SelectSeq(e.path, LAMBDA c : c # "/")
C10_OperationAnchor ==
    Done =>
        \A i \in 1..Len(swaggerJson.paths) :
            LET e == swaggerJson.paths[i]
                tags == ScannedTags(e.operation)
            IN \A t \in 1..Len(tags) :
                  /\ \E n \in 1..Len(result) :
                        /\ result[n].k = "anchor"
                        /\ result[n].cells[1] = ExpectedAnchor(tags[t], e)
                  /\ \E n \in 1..Len(result) :
                        /\ result[n].k = "tocOperation"
                        /\ result[n].cells = <<LabelOf(e), ExpectedAnchor(tags[t], e)>>

SpecGroup == InitGroup /\ [][Next]_vars
SpecAnchor == InitAnchor /\ [][Next]_vars
SpecOps == InitOps /\ [][Next]_vars
SpecRefs == InitRefs /\ [][Next]_vars
SpecProps == InitProps /\ [][Next]_vars

====
